---- MODULE Spec2Model ----
(***************************************************************************)
(* The connected-peer registry of bt-a2dp (ConnectedPeers,                 *)
(* connected_peers.rs): the map of connected peers, the descriptor cache,  *)
(* the listener channels, and the two kinds of background task that a new  *)
(* entry spawns (close detection, initiator-side start_streaming).         *)
(***************************************************************************)
EXTENDS Integers, Sequences, FiniteSets, TLC

\* ---------------------------------------------------------------- bounds
\* Number of connected() calls a behaviour may make (each call brings its
\* own fresh Channel, so this also bounds the Peer objects ever created).
MaxCalls == 3
\* Number of connected_stream() calls a behaviour may make.
MaxListeners == 2
\* Number of sessions created where every answer of the remote is explored.
MaxSessions == 1

\* ---------------------------------------------------------------- inputs
PeerIds == {1, 2}
Descs == {"d1"}
AllDescs == {"d1", "d2"}
NoDesc == "none"

\* A DetachableWeak<PeerId, Peer>: the key plus the identity of the Peer
\* allocation it points to (gen: the serial number of the allocation).
Gens == 1..MaxCalls
Handles == [id : PeerIds, gen : Gens]
None == [id |-> 0, gen |-> 0]
Listeners == 1..MaxListeners

VARIABLES
    connected,               \* ConnectedPeers.connected: the entries of the map
    descriptors,             \* ConnectedPeers.descriptors
    connected_peer_senders,  \* ConnectedPeers.connected_peer_senders (a Vec)
    peers,                   \* every Peer ever created, indexed by gen
    closeTasks,              \* spawned close-detection tasks (by handle)
    negTasks,                \* spawned start_streaming tasks
    rxAlive,                 \* PeerConnections receivers not yet dropped
    buf,                     \* per listener channel: handles sent, not yet taken
    got,                     \* per listener: handles its stream has produced
    nListeners,              \* Number of connected_stream() calls made
    ended,                   \* per listener: its stream has produced None
    codec_negotiation,       \* ConnectedPeers.codec_negotiation
    streams,                 \* ConnectedPeers.streams and the Streams made from
                             \* it: per Streams object, the endpoints in use
    expected,                \* history: per listener, the handles of the connects
                             \* that created an entry while it was subscribed
    ncalls,                  \* number of connected() calls made
    ret,                     \* the last connected() call: arguments and result
    staleDetach              \* history: some task has called detach() on its
                             \* handle while a later entry held the same key

vars == <<connected, descriptors, connected_peer_senders, peers, closeTasks,
          negTasks, rxAlive, buf, got, nListeners, ended, codec_negotiation,
          expected, ncalls, ret, staleDetach, streams>>

regVars == <<connected, descriptors, connected_peer_senders, codec_negotiation>>
listenerVars == <<rxAlive, buf, got, nListeners, ended, expected>>

\* ------------------------------------------------------- DetachableMap
\* fuchsia_bluetooth::detachable_map, as the registry's design describes it:
\* the map owns each value; a weak handle names one installed value and is
\* revoked by detach. A definition named after another with a suffix
\* (detach_ByKey, get_weak_Missing, ...) is a faulty variant of it, which
\* the properties below are shown to tell apart from the original.
nextGen == Len(peers) + 1

\* DetachableMap::contains_key
contains_key_Never(id) == FALSE
contains_key(id) == \E e \in connected : e.id = id

\* DetachableMap::get: the weak handle of the entry stored under the key.
map_get(id) ==
    IF contains_key(id) THEN CHOOSE e \in connected : e.id = id ELSE None

\* DetachableWeak::upgrade: resolvable while that very entry is installed.
upgrade_ByKey(h) == contains_key(h.id)
upgrade(h) == h \in connected

\* DetachableWeak::detach: removes the entry the handle points to, and
\* nothing else (an entry installed later under the same key is another
\* allocation).
detach_ByKey(h) == {e \in connected : e.id # h.id}
detach(h) == connected \ {h}

\* LazyEntry::try_insert: installs the value unless the key is taken.
try_insert(id, g) ==
    IF contains_key(id)
      THEN [ok |-> FALSE, map |-> connected]
      ELSE [ok |-> TRUE, map |-> connected \cup {[id |-> id, gen |-> g]}]

\* ------------------------------------------------------- ConnectedPeers
get_weak_Missing(id) == None
get_weak(id) == map_get(id)

get(id) ==
    LET p == get_weak(id) IN IF p # None /\ upgrade(p) THEN p ELSE None

is_connected(id) == contains_key(id)

\* ------------------------------------------------------ CodecNegotiation
\* A codec capability is modelled by its codec family; a remote endpoint by
\* [seid, dir, codec]; a CodecNegotiation by its preference list (most
\* preferred first) and its direction.
Codecs == {"aac", "sbc"}
Dirs == {"sink", "source"}
RemoteSeids == {1, 2}
Endpoints == [seid : RemoteSeids, dir : Dirs, codec : Codecs]

\* The local stream endpoints of the tests.
SBC_SEID == 9
AAC_SEID == 10

\* CodecNegotiation::build(vec![aac_codec, sbc_codec], EndpointType::Sink).
TestNegotiation == [pref |-> <<"aac", "sbc">>, dir |-> "sink"]
\* The Discover/GetCapabilities answers of connect_initiation_uses_negotiation.
TestRemote ==
    << [seid |-> 1, dir |-> "source", codec |-> "sbc"],
       [seid |-> 2, dir |-> "source", codec |-> "aac"] >>

NoSelection == [codec |-> "none", seid |-> 0]

complementary(dir) == IF dir = "sink" THEN "source" ELSE "sink"

compatible(neg, codec, ep) == ep.dir = complementary(neg.dir) /\ ep.codec = codec

\* The first remote endpoint, from position i on, compatible with codec.
RECURSIVE first_compatible(_, _, _, _)
first_compatible(neg, codec, remote, i) ==
    IF i > Len(remote) THEN NoSelection
    ELSE IF compatible(neg, codec, remote[i])
      THEN [codec |-> codec, seid |-> remote[i].seid]
      ELSE first_compatible(neg, codec, remote, i + 1)

\* The outer loop of select, over the preference list from position k on.
RECURSIVE select_from(_, _, _)
select_from(neg, remote, k) ==
    IF k > Len(neg.pref) THEN NoSelection
    ELSE IF first_compatible(neg, neg.pref[k], remote, 1) # NoSelection
      THEN first_compatible(neg, neg.pref[k], remote, 1)
      ELSE select_from(neg, remote, k + 1)

\* CodecNegotiation::select
select_RemoteOrder(neg, remote) ==
    LET ok == {i \in 1..Len(remote) :
                 \E k \in 1..Len(neg.pref) : compatible(neg, neg.pref[k], remote[i])}
        first == CHOOSE i \in ok : \A j \in ok : i <= j
    IN  IF ok = {} THEN NoSelection
        ELSE [codec |-> remote[first].codec, seid |-> remote[first].seid]
select(neg, remote) == select_from(neg, remote, 1)

\* The local stream that Peer::stream_start pairs with the negotiated codec.
local_stream(codec) == IF codec = "aac" THEN AAC_SEID ELSE SBC_SEID

\* ------------------------------------------------------------- Streams
\* Every Streams object is a cell of the variable streams, holding the local
\* endpoints (by seid) that are in use in it. The registry's own Streams
\* (the template, line 34) is cell TemplateCell; the Streams of the Peer
\* with serial number g is the cell that peers[g].streams names.
TemplateCell == 0

\* Streams::as_new into cell c: a deep copy of the template.
as_new(c) ==
    [x \in DOMAIN streams \cup {c} |->
        IF x = c THEN streams[TemplateCell] ELSE streams[x]]

\* An endpoint of the Streams in cell c becomes in use.
set_in_use(c, seid) == [streams EXCEPT ![c] = @ \cup {seid}]

\* Line 138: the Streams that Peer::create is given, self.streams.as_new().
streams_for_Template(g) == TemplateCell
streams_for(g) == g

TypeOK ==
    /\ connected \subseteq Handles
    /\ descriptors \in [PeerIds -> AllDescs \cup {NoDesc}]
    /\ ncalls \in 0..MaxCalls
    /\ nListeners \in 0..MaxListeners
    /\ Len(peers) <= MaxCalls
    /\ DOMAIN streams \subseteq {TemplateCell} \cup Gens

\* The state after ConnectedPeers::new, but for codec_negotiation.
InitRegistry ==
    /\ connected = {}
    /\ descriptors = [i \in PeerIds |-> NoDesc]
    /\ connected_peer_senders = <<>>
    /\ peers = <<>>
    /\ closeTasks = {}
    /\ negTasks = {}
    /\ rxAlive = [l \in Listeners |-> FALSE]
    /\ buf = [l \in Listeners |-> <<>>]
    /\ got = [l \in Listeners |-> <<>>]
    /\ nListeners = 0
    /\ ended = [l \in Listeners |-> FALSE]
    /\ expected = [l \in Listeners |-> <<>>]
    /\ ncalls = 0
    /\ ret = [id |-> 0, initiator |-> FALSE, ok |-> FALSE, h |-> None,
              err |-> "no call yet", desc |-> NoDesc]
    /\ staleDetach = FALSE
    /\ streams = (TemplateCell :> {})

Init == InitRegistry /\ codec_negotiation = TestNegotiation

\* Line 98: self.descriptors.insert(id, desc.clone()).
found_descriptors(ds, id, desc) == [ds EXCEPT ![id] = desc]

\* Line 99: self.get(&id).map(|p| p.set_descriptor(desc)).
found_peers_EveryPeer(ps, id, desc) ==
    [g \in DOMAIN ps |-> [ps[g] EXCEPT !.desc = desc]]
found_peers_CacheOnly(ps, id, desc) == ps
found_peers(ps, id, desc) ==
    IF get(id) # None THEN [ps EXCEPT ![get(id).gen].desc = desc] ELSE ps

found(id, desc) ==
    /\ descriptors' = found_descriptors(descriptors, id, desc)
    /\ peers' = found_peers(peers, id, desc)
    /\ UNCHANGED <<connected, connected_peer_senders, codec_negotiation,
                   closeTasks, negTasks, listenerVars, ncalls, ret, staleDetach,
                   streams>>

\* ------------------------------------------------------ listener fan-out
\* mpsc::Sender::try_send on a channel(0) with its single sender: accepted
\* when the receiver exists and has taken the previous message.
try_send_ok_Unbounded(l, b) == rxAlive[l]
try_send_ok(l, b) == rxAlive[l] /\ b[l] = <<>>

\* Vec::swap_remove: the last element takes the place of the removed one.
swap_remove(v, i) ==
    IF i = Len(v)
      THEN SubSeq(v, 1, Len(v) - 1)
      ELSE [SubSeq(v, 1, Len(v) - 1) EXCEPT ![i] = v[Len(v)]]

\* The while loop of notify_connected (i is 1-based here).
RECURSIVE notify_loop_StepsPastSwapped(_, _, _, _)
notify_loop_StepsPastSwapped(i, senders, b, peer) ==
    IF i > Len(senders)
      THEN [senders |-> senders, buf |-> b]
      ELSE IF ~try_send_ok(senders[i], b)
        THEN notify_loop_StepsPastSwapped(i + 1, swap_remove(senders, i), b, peer)
        ELSE notify_loop_StepsPastSwapped(
                 i + 1, senders, [b EXCEPT ![senders[i]] = Append(@, peer)], peer)

RECURSIVE notify_loop(_, _, _, _)
notify_loop(i, senders, b, peer) ==
    IF i = Len(senders) + 1
      THEN [senders |-> senders, buf |-> b]
      ELSE IF ~try_send_ok(senders[i], b)
        THEN notify_loop(i, swap_remove(senders, i), b, peer)
        ELSE notify_loop(
                 i + 1, senders, [b EXCEPT ![senders[i]] = Append(@, peer)], peer)

notify_connected(peer) == notify_loop(1, connected_peer_senders, buf, peer)

\* The merge path returns at line 126, before the fan-out of line 179.
merge_fanout_Notifies(weak) == notify_connected(weak)
merge_fanout(weak) == [senders |-> connected_peer_senders, buf |-> buf]

connected_stream_Replays ==
    /\ nListeners < MaxListeners
    /\ nListeners' = nListeners + 1
    /\ connected_peer_senders' = Append(connected_peer_senders, nListeners + 1)
    /\ rxAlive' = [rxAlive EXCEPT ![nListeners + 1] = TRUE]
    /\ buf' = [buf EXCEPT ![nListeners + 1] =
                  IF connected = {} THEN <<>>
                  ELSE <<CHOOSE h \in connected : TRUE>>]
    /\ UNCHANGED <<connected, descriptors, codec_negotiation, peers,
                   closeTasks, negTasks, got, ended, expected, ncalls, ret,
                   staleDetach, streams>>

connected_stream ==
    /\ nListeners < MaxListeners
    /\ nListeners' = nListeners + 1
    /\ connected_peer_senders' = Append(connected_peer_senders, nListeners + 1)
    /\ rxAlive' = [rxAlive EXCEPT ![nListeners + 1] = TRUE]
    /\ UNCHANGED <<connected, descriptors, codec_negotiation, peers,
                   closeTasks, negTasks, buf, got, ended, expected, ncalls, ret,
                   staleDetach, streams>>

\* PeerConnections::poll_next producing an item.
poll_next(l) ==
    /\ rxAlive[l]
    /\ buf[l] # <<>>
    /\ got' = [got EXCEPT ![l] = Append(@, Head(buf[l]))]
    /\ buf' = [buf EXCEPT ![l] = Tail(@)]
    /\ UNCHANGED <<regVars, peers, closeTasks, negTasks, rxAlive, nListeners,
                   ended, expected, ncalls, ret, staleDetach, streams>>

\* The channel's only sender is still in the Vec (not dropped).
sender_exists(l) ==
    \E i \in 1..Len(connected_peer_senders) : connected_peer_senders[i] = l

\* PeerConnections::poll_next producing None: the queue is empty and the
\* sender has been dropped.
poll_end(l) ==
    /\ rxAlive[l]
    /\ buf[l] = <<>>
    /\ ~sender_exists(l)
    /\ ~ended[l]
    /\ ended' = [ended EXCEPT ![l] = TRUE]
    /\ UNCHANGED <<regVars, peers, closeTasks, negTasks, rxAlive, buf, got,
                   nListeners, expected, ncalls, ret, staleDetach, streams>>

\* drop(PeerConnections): the receiver closes and its queue is drained.
drop_stream(l) ==
    /\ rxAlive[l]
    /\ rxAlive' = [rxAlive EXCEPT ![l] = FALSE]
    /\ buf' = [buf EXCEPT ![l] = <<>>]
    /\ UNCHANGED <<regVars, peers, closeTasks, negTasks, got, nListeners,
                   ended, expected, ncalls, ret, staleDetach, streams>>

\* ------------------------------------------------------------ connected()
\* desc: the descriptor the returned peer carries when the call returns.
Ret(id, initiator, ok, h, err, desc) ==
    [id |-> id, initiator |-> initiator, ok |-> ok, h |-> h, err |-> err,
     desc |-> desc]

\* Lines 122-125: receive_channel failed; the entry is left as it is.
on_rejected_Detaches(weak) == detach(weak)
on_rejected(weak) == connected

\* Peer::create with the cached descriptor applied (lines 132-144).
new_peer_NoDescriptor(id, initiator) ==
    [id |-> id, open |-> TRUE, desc |-> NoDesc, nchan |-> 1,
     initiator |-> initiator, streams |-> streams_for(nextGen)]
new_peer(id, initiator) ==
    [id |-> id, open |-> TRUE, desc |-> descriptors[id], nchan |-> 1,
     initiator |-> initiator, streams |-> streams_for(nextGen)]

\* Lines 159-169: the start_streaming task, for an initiator only.
\* The task owns a clone of codec_negotiation (line 161). remote, sel and
\* local are what a task waiting for stream_start has collected, selected
\* and configured.
new_task(h, pc) ==
    [h |-> h, pc |-> pc, neg |-> codec_negotiation, remote |-> <<>>,
     sel |-> NoSelection, local |-> 0]

\* Lines 159-169: Task::local(..).detach() only queues the task.
spawn_start_streaming_Always(initiator, h) ==
    negTasks \cup {new_task(h, "spawned")}
spawn_start_streaming_Awaited(initiator, h) ==
    IF initiator THEN negTasks \cup {new_task(h, "discovering")} ELSE negTasks
spawn_start_streaming(initiator, h) ==
    IF initiator THEN negTasks \cup {new_task(h, "spawned")} ELSE negTasks

\* Lines 171-176: the close-detection task, for every new entry.
spawn_close_task_UnlessInitiator(initiator, h) ==
    IF initiator THEN closeTasks ELSE closeTasks \cup {h}
spawn_close_task_InitiatorOnly(initiator, h) ==
    IF initiator THEN closeTasks \cup {h} ELSE closeTasks
spawn_close_task(initiator, h) == closeTasks \cup {h}

\* The merge path returns at line 126, before the spawns of lines 159-176.
merge_tasks_Negotiates(initiator, weak) == spawn_start_streaming(initiator, weak)
merge_tasks(initiator, weak) == negTasks

\* Lines 120-127: an entry exists under id. accept is the outcome of the
\* peer's receive_channel for this channel.
connected_existing(id, initiator, accept, weak) ==
    IF ~upgrade(weak)
      THEN /\ ret' = Ret(id, initiator, FALSE, None,
                         "Disconnected connecting transport", NoDesc)
           /\ UNCHANGED <<regVars, peers, closeTasks, negTasks, listenerVars,
                          streams>>
      ELSE IF ~accept
        THEN /\ ret' = Ret(id, initiator, FALSE, None, "receive_channel", NoDesc)
             /\ connected' = on_rejected(weak)
             /\ UNCHANGED <<descriptors, connected_peer_senders,
                            codec_negotiation, peers, closeTasks, negTasks,
                            listenerVars, streams>>
        ELSE /\ peers' = [peers EXCEPT ![weak.gen].nchan = @ + 1]
             /\ connected_peer_senders' = merge_fanout(weak).senders
             /\ buf' = merge_fanout(weak).buf
             /\ ret' = Ret(id, initiator, TRUE, weak, "", peers[weak.gen].desc)
             /\ negTasks' = merge_tasks(initiator, weak)
             /\ UNCHANGED <<connected, descriptors, codec_negotiation,
                            closeTasks, rxAlive, got, nListeners, ended,
                            expected, streams>>

\* Lines 146-148: a failed iattach is logged and creation goes on.
iattach_aborts_OnError(attach_ok) == ~attach_ok
iattach_aborts(attach_ok) == FALSE

\* Lines 129-181: no entry under id. attach_ok is the outcome of iattach.
connected_new(id, initiator, attach_ok) ==
    LET g == nextGen
        h == [id |-> id, gen |-> g]
        ins == try_insert(id, g)
    IN  IF iattach_aborts(attach_ok)
          THEN /\ ret' = Ret(id, initiator, FALSE, None, "inspect attach", NoDesc)
               /\ UNCHANGED <<regVars, peers, closeTasks, negTasks, listenerVars,
                          streams>>
        ELSE IF ~ins.ok
          THEN /\ ret' = IF get_weak(id) # None
                           THEN Ret(id, initiator, TRUE, get_weak(id), "",
                                    peers[get_weak(id).gen].desc)
                           ELSE Ret(id, initiator, FALSE, None, "Peer missing",
                                    NoDesc)
               /\ UNCHANGED <<regVars, peers, closeTasks, negTasks, listenerVars,
                          streams>>
          ELSE /\ connected' = ins.map
               /\ peers' = Append(peers, new_peer(id, initiator))
               /\ negTasks' = spawn_start_streaming(initiator, h)
               /\ closeTasks' = spawn_close_task(initiator, h)
               /\ LET peer == get_weak(id)'
                  IN  IF peer = None
                        THEN /\ ret' = Ret(id, initiator, FALSE, None,
                                           "Peer missing", NoDesc)
                             /\ UNCHANGED <<connected_peer_senders, buf, expected>>
                        ELSE /\ connected_peer_senders' = notify_connected(peer).senders
                             /\ buf' = notify_connected(peer).buf
                             /\ expected' =
                                  [l \in Listeners |->
                                     IF rxAlive[l] THEN Append(expected[l], peer)
                                                   ELSE expected[l]]
                             /\ ret' = Ret(id, initiator, TRUE, peer, "",
                                           peers'[peer.gen].desc)
               /\ streams' = as_new(streams_for(g))
               /\ UNCHANGED <<descriptors, codec_negotiation, rxAlive, got,
                              nListeners, ended>>

\* Line 120: if let Some(weak) = self.get_weak(&id).
existing_entry_Skipped(id) == None
existing_entry(id) == get_weak(id)

Connected(id, initiator, accept, attach_ok) ==
    /\ ncalls < MaxCalls
    /\ ncalls' = ncalls + 1
    /\ UNCHANGED staleDetach
    /\ IF existing_entry(id) # None
         THEN connected_existing(id, initiator, accept, existing_entry(id))
         ELSE connected_new(id, initiator, attach_ok)

\* ------------------------------------------------------ background tasks
\* The remote end (or the drop of the session) closes the peer's transport;
\* from then on the future returned by Peer::closed() is ready.
TransportClose(g) ==
    /\ g \in 1..Len(peers)
    /\ peers[g].open
    /\ peers' = [peers EXCEPT ![g].open = FALSE]
    /\ UNCHANGED <<regVars, closeTasks, negTasks, listenerVars, ncalls, ret, staleDetach,
                   streams>>

\* The handle's own entry is gone and a later one holds its key.
is_stale(h) == ~upgrade(h) /\ contains_key(h.id)

\* Lines 172-175: closed_fut.await; peer.detach().
CloseTask_ClearsDescriptor(h) ==
    /\ h \in closeTasks
    /\ ~peers[h.gen].open
    /\ closeTasks' = closeTasks \ {h}
    /\ connected' = detach(h)
    /\ descriptors' = [descriptors EXCEPT ![h.id] = NoDesc]
    /\ staleDetach' = (staleDetach \/ is_stale(h))
    /\ UNCHANGED <<peers, connected_peer_senders, codec_negotiation, negTasks,
                   listenerVars, ncalls, ret, streams>>

CloseTask(h) ==
    /\ h \in closeTasks
    /\ ~peers[h.gen].open
    /\ closeTasks' = closeTasks \ {h}
    /\ connected' = detach(h)
    /\ staleDetach' = (staleDetach \/ is_stale(h))
    /\ UNCHANGED <<peers, descriptors, connected_peer_senders,
                   codec_negotiation, negTasks, listenerVars, ncalls, ret,
                   streams>>

NegPcs == {"spawned", "discovering", "collecting", "starting", "done", "failed"}
neg_running(h) == \E t \in negTasks : t.h = h /\ t.pc \notin {"done", "failed"}

\* A task that has returned: only its outcome is remembered.
finished(t, pc) == [new_task(t.h, pc) EXCEPT !.neg = t.neg]

\* Lines 163-166: start_streaming returned Err; peer_clone.detach().
neg_failed_NoDetach(t) ==
    /\ negTasks' = (negTasks \ {t}) \cup {finished(t, "failed")}
    /\ UNCHANGED <<regVars, peers, closeTasks, listenerVars, ncalls, ret,
                   staleDetach, streams>>

neg_failed(t) ==
    /\ negTasks' = (negTasks \ {t}) \cup {finished(t, "failed")}
    /\ connected' = detach(t.h)
    /\ staleDetach' = (staleDetach \/ is_stale(t.h))
    /\ UNCHANGED <<peers, descriptors, connected_peer_senders,
                   codec_negotiation, closeTasks, listenerVars, ncalls, ret,
                   streams>>

neg_goto(t, u) ==
    /\ negTasks' = (negTasks \ {t}) \cup {u}
    /\ UNCHANGED <<regVars, peers, closeTasks, listenerVars, ncalls, ret,
                   staleDetach, streams>>

\* The await point the first poll of start_streaming reaches.
first_await_Configures == "starting"
first_await == "discovering"

\* start_streaming, first poll: line 87, then collect_capabilities is
\* pending with its Discover request sent.
NegBegin(t) ==
    /\ t \in negTasks /\ t.pc = "spawned"
    /\ IF upgrade(t.h)
         THEN neg_goto(t, [t EXCEPT !.pc = first_await])
         ELSE neg_failed(t)

\* Inside collect_capabilities (line 88): the Discover request is answered;
\* on success GetCapabilities is sent for the discovered endpoints.
NegDiscovered(t, ok) ==
    /\ t \in negTasks /\ t.pc = "discovering"
    /\ peers[t.h.gen].open \/ ~ok
    /\ IF ok
         THEN neg_goto(t, [t EXCEPT !.pc = "collecting"])
         ELSE neg_failed(t)

\* What collect_capabilities resolves to: an error (protocol error or
\* disconnect) or the remote's endpoints with their capabilities.
CollectError == [ok |-> FALSE, streams |-> <<>>]
Collected(remote_streams) == [ok |-> TRUE, streams |-> remote_streams]

\* Line 93: the handle is upgraded again before the stream is started.
second_upgrade_Skipped(h) == TRUE
second_upgrade(h) == upgrade(h)

\* Lines 88-93: the error start_streaming returns once collect_capabilities
\* has resolved to res, "" if it goes on to stream_start; alive is the outcome
\* of the second upgrade.
collect_error_SelectsNothingLate(neg, res, alive) ==
    IF ~res.ok THEN "collect_capabilities"
    ELSE IF ~alive THEN "Disconnected"
    ELSE ""
collect_error(neg, res, alive) ==
    IF ~res.ok THEN "collect_capabilities"
    ELSE IF select(neg, res.streams) = NoSelection
      THEN "No compatible stream found"
    ELSE IF ~alive THEN "Disconnected"
    ELSE ""

\* Line 94: stream_start(remote_seid, negotiated).
stream_start_args(sel, remote) == sel

\* collect_capabilities resolved (lines 88-94): select, the second upgrade,
\* and the call of stream_start. A closed transport only fails.
NegCollected(t, res) ==
    /\ t \in negTasks /\ t.pc = "collecting"
    /\ peers[t.h.gen].open \/ ~res.ok
    /\ LET sel == select(t.neg, res.streams)
       IN  IF collect_error(t.neg, res, second_upgrade(t.h)) = ""
             THEN neg_goto(t, [t EXCEPT
                                 !.pc = "starting",
                                 !.remote = res.streams,
                                 !.sel = stream_start_args(sel, res.streams),
                                 !.local = local_stream(sel.codec)])
             ELSE neg_failed(t)

\* Lines 163-166: start_streaming returned Ok(()): the task ends and the
\* entry is left installed.
on_started_Detaches(t) == detach(t.h)
on_started(t) == connected

\* stream_start resolved (line 94): on success the local endpoint of the
\* pairing streams, in use in the peer's own Streams.
NegStarted(t, ok) ==
    /\ t \in negTasks /\ t.pc = "starting"
    /\ peers[t.h.gen].open \/ ~ok
    /\ IF ok
         THEN /\ negTasks' = (negTasks \ {t}) \cup {finished(t, "done")}
              /\ streams' = set_in_use(peers[t.h.gen].streams, t.local)
              /\ connected' = on_started(t)
              /\ UNCHANGED <<descriptors, connected_peer_senders,
                             codec_negotiation, peers, closeTasks,
                             listenerVars, ncalls, ret, staleDetach>>
         ELSE neg_failed(t)

\* The answers of the remote used where the codecs are not the subject: an
\* error, endpoints of the wrong direction, the endpoints of the test.
LifecycleResults ==
    {CollectError,
     Collected(<<[seid |-> 1, dir |-> "sink", codec |-> "aac"]>>),
     Collected(TestRemote)}

\* The registry's life cycle: every registry call and every background task,
\* with no listener subscribed.
Next ==
    \/ \E id \in PeerIds, d \in Descs : found(id, d)
    \/ \E id \in PeerIds, initiator \in BOOLEAN, accept \in BOOLEAN,
          attach_ok \in BOOLEAN :
         Connected(id, initiator, accept, attach_ok)
    \/ \E g \in Gens : TransportClose(g)
    \/ \E h \in Handles : CloseTask(h)
    \/ \E t \in negTasks : NegBegin(t)
    \/ \E t \in negTasks, ok \in BOOLEAN : NegDiscovered(t, ok)
    \/ \E t \in negTasks, res \in LifecycleResults : NegCollected(t, res)
    \/ \E t \in negTasks, ok \in BOOLEAN : NegStarted(t, ok)

Spec == Init /\ [][Next]_vars

\* The same without found(): connects, closes, reconnects and the tasks.
NextLifecycle ==
    \/ \E id \in PeerIds, initiator \in BOOLEAN, accept \in BOOLEAN,
          attach_ok \in BOOLEAN :
         Connected(id, initiator, accept, attach_ok)
    \/ \E g \in Gens : TransportClose(g)
    \/ \E h \in Handles : CloseTask(h)
    \/ \E t \in negTasks : NegBegin(t)
    \/ \E t \in negTasks, ok \in BOOLEAN : NegDiscovered(t, ok)
    \/ \E t \in negTasks, res \in LifecycleResults : NegCollected(t, res)
    \/ \E t \in negTasks, ok \in BOOLEAN : NegStarted(t, ok)

LifecycleSpec == Init /\ [][NextLifecycle]_vars

\* The local executor runs every spawned task that is ready: a close
\* detection task whose closed() future has resolved does run.
CloseFairness == \A h \in Handles : WF_vars(CloseTask(h))

FairLifecycleSpec == LifecycleSpec /\ CloseFairness

\* The listener fan-out: subscriptions, their consumption and drop, and
\* connects (new entries and merged channels), with no spawned task polled.
NextListeners ==
    \/ \E id \in PeerIds, initiator \in BOOLEAN, accept \in BOOLEAN,
          attach_ok \in BOOLEAN :
         Connected(id, initiator, accept, attach_ok)
    \/ connected_stream
    \/ \E l \in Listeners : poll_next(l)
    \/ \E l \in Listeners : poll_end(l)
    \/ \E l \in Listeners : drop_stream(l)

ListenerSpec == Init /\ [][NextListeners]_vars

\* The descriptor cache: found() with two descriptor values, inbound
\* connects, closes and reconnects.
NextDescriptors ==
    \/ \E id \in PeerIds, d \in AllDescs : found(id, d)
    \/ \E id \in PeerIds, accept \in BOOLEAN, attach_ok \in BOOLEAN :
         Connected(id, FALSE, accept, attach_ok)
    \/ \E g \in Gens : TransportClose(g)
    \/ \E h \in Handles : CloseTask(h)

DescriptorSpec == Init /\ [][NextDescriptors]_vars

\* The initiator's negotiation over every CodecNegotiation and every answer
\* of the remote: the registry is built with any preference list and
\* direction, a peer connects as initiator (and may send further channels),
\* and its task runs.
PrefLists == {<<>>, <<"aac">>, <<"sbc">>, <<"aac", "sbc">>, <<"sbc", "aac">>}
Negotiations == [pref : PrefLists, dir : Dirs]
RemoteLists ==
    {<<>>} \cup {<<e>> : e \in Endpoints}
           \cup {p \in {<<e1, e2>> : e1 \in Endpoints, e2 \in Endpoints} :
                   p[1].seid # p[2].seid}
NegotiationPeers == {1}

InitNegotiation == InitRegistry /\ codec_negotiation \in Negotiations

NextNegotiation ==
    \/ \E id \in NegotiationPeers, accept \in BOOLEAN, attach_ok \in BOOLEAN :
         /\ contains_key(id) \/ Len(peers) < MaxSessions
         /\ Connected(id, TRUE, accept, attach_ok)
    \/ \E t \in negTasks : NegBegin(t)
    \/ \E t \in negTasks, ok \in BOOLEAN : NegDiscovered(t, ok)
    \/ \E t \in negTasks, remote \in RemoteLists :
         NegCollected(t, Collected(remote))
    \/ \E t \in negTasks : NegCollected(t, CollectError)
    \/ \E t \in negTasks, ok \in BOOLEAN : NegStarted(t, ok)

NegotiationSpec == InitNegotiation /\ [][NextNegotiation]_vars

\* set_preferred_direction (lines 102-105): the registry's negotiation gets
\* the new direction; the clones owned by spawned tasks are other objects.
set_preferred_direction_UpdatesTasks(direction) ==
    /\ codec_negotiation' = [codec_negotiation EXCEPT !.dir = direction]
    /\ negTasks' = {[t EXCEPT !.neg.dir = direction] : t \in negTasks}
    /\ UNCHANGED <<connected, descriptors, connected_peer_senders, peers,
                   closeTasks, listenerVars, ncalls, ret, staleDetach,
                   streams>>

set_preferred_direction(direction) ==
    /\ codec_negotiation' = [codec_negotiation EXCEPT !.dir = direction]
    /\ UNCHANGED <<connected, descriptors, connected_peer_senders, peers,
                   closeTasks, negTasks, listenerVars, ncalls, ret,
                   staleDetach, streams>>

\* preferred_direction (lines 107-109).
preferred_direction == codec_negotiation.dir

\* The preferred direction changing around one initiated session: the
\* direction is set at any moment while the peer connects and its
\* negotiation runs.
NextDirection ==
    \/ \E direction \in Dirs : set_preferred_direction(direction)
    \/ \E id \in NegotiationPeers, accept \in BOOLEAN, attach_ok \in BOOLEAN :
         /\ contains_key(id) \/ Len(peers) < MaxSessions
         /\ Connected(id, TRUE, accept, attach_ok)
    \/ \E t \in negTasks : NegBegin(t)
    \/ \E t \in negTasks, ok \in BOOLEAN : NegDiscovered(t, ok)
    \/ \E t \in negTasks, res \in LifecycleResults : NegCollected(t, res)
    \/ \E t \in negTasks, ok \in BOOLEAN : NegStarted(t, ok)

DirectionSpec == Init /\ [][NextDirection]_vars

\* DetachableWeak::detach called by a holder of a handle that connected()
\* returned: the entry leaves the map with its transport still open.
ExplicitDetach(h) ==
    /\ \E g \in 1..Len(peers) : h = [id |-> peers[g].id, gen |-> g]
    /\ upgrade(h)
    /\ connected' = detach(h)
    /\ UNCHANGED <<descriptors, connected_peer_senders, codec_negotiation,
                   peers, closeTasks, negTasks, listenerVars, ncalls, ret,
                   staleDetach, streams>>

\* One initiated session whose entry may be detached at any moment, by a
\* holder of its handle or after a transport close, while its negotiation
\* runs.
NextDetach ==
    \/ \E id \in NegotiationPeers, accept \in BOOLEAN, attach_ok \in BOOLEAN :
         /\ contains_key(id) \/ Len(peers) < MaxSessions
         /\ Connected(id, TRUE, accept, attach_ok)
    \/ \E h \in Handles : ExplicitDetach(h)
    \/ \E g \in Gens : TransportClose(g)
    \/ \E h \in Handles : CloseTask(h)
    \/ \E t \in negTasks : NegBegin(t)
    \/ \E t \in negTasks, ok \in BOOLEAN : NegDiscovered(t, ok)
    \/ \E t \in negTasks, res \in LifecycleResults : NegCollected(t, res)
    \/ \E t \in negTasks, ok \in BOOLEAN : NegStarted(t, ok)

DetachSpec == Init /\ [][NextDetach]_vars

\* A spawned start_streaming task is polled; it is woken, and polled again,
\* when the transport of its peer has closed: the request it waits for
\* resolves to an error then.
NegWake(h) ==
    \E t \in negTasks :
        /\ t.h = h
        /\ \/ NegBegin(t)
           \/ /\ ~peers[h.gen].open
              /\ \/ NegDiscovered(t, FALSE)
                 \/ NegCollected(t, CollectError)
                 \/ NegStarted(t, FALSE)
NegFairness == \A h \in Handles : WF_vars(NegWake(h))

FairTaskSpec == DetachSpec /\ CloseFairness /\ NegFairness

\* Every registry call and both kinds of background task around the
\* sessions of one PeerId.
NextRegistry ==
    \/ \E id \in NegotiationPeers, d \in Descs : found(id, d)
    \/ \E id \in NegotiationPeers, initiator \in BOOLEAN, accept \in BOOLEAN,
          attach_ok \in BOOLEAN :
         /\ contains_key(id) \/ Len(peers) < MaxSessions
         /\ Connected(id, initiator, accept, attach_ok)
    \/ connected_stream
    \/ \E direction \in Dirs : set_preferred_direction(direction)
    \/ \E g \in Gens : TransportClose(g)
    \/ \E h \in Handles : CloseTask(h)
    \/ \E t \in negTasks : NegBegin(t)
    \/ \E t \in negTasks, ok \in BOOLEAN : NegDiscovered(t, ok)
    \/ \E t \in negTasks, res \in LifecycleResults : NegCollected(t, res)
    \/ \E t \in negTasks, ok \in BOOLEAN : NegStarted(t, ok)

RegistrySpec == Init /\ [][NextRegistry]_vars

\* ================================================================ claims
\* The weak handle returned when the Peer with serial number g was installed.
Hd(g) == [id |-> peers[g].id, gen |-> g]
Created == 1..Len(peers)
Range(v) == {v[i] : i \in 1..Len(v)}
\* A connected() call is the step that advances ncalls; ret' holds its
\* arguments and its return value.
IsCall == ncalls' = ncalls + 1
RetResolves == ret.ok /\ upgrade(ret.h) /\ ret.h.id = ret.id
\* Everything a listener's stream has produced or holds ready.
delivered(l) == got[l] \o buf[l]

\* C1: in every reachable state the connected map holds at most one entry per
\* PeerId, whatever connects, founds, closes, negotiation failures and
\* reconnects have happened.
C1_AtMostOneEntryPerPeerId ==
    \A id \in PeerIds : Cardinality({e \in connected : e.id = id}) <= 1

\* Both ids are connected, one of them by a reconnect after a detach.
C1_Witness ==
    /\ \A id \in PeerIds : is_connected(id)
    /\ \E g \in Created : ~upgrade(Hd(g))

\* C2: connected(id, channel, false) for an id with no entry returns Ok with
\* a handle that upgrades, and the registry then reports id as connected.
C2_NewPeerConnects ==
    [][(IsCall /\ ~contains_key(ret'.id) /\ ~ret'.initiator)
          => (RetResolves' /\ is_connected(ret.id)')]_vars

C2_Witness ==
    /\ ncalls = 1 /\ ~ret.initiator /\ RetResolves
    /\ is_connected(ret.id) /\ peers[ret.h.gen].nchan = 1

\* C3: a connected() call for an id whose entry is installed, with
\* receive_channel accepting the channel, returns the handle of that entry,
\* attaches the channel to its peer and creates no second entry or peer.
C3_SecondChannelMerges ==
    [][(IsCall /\ contains_key(ret'.id) /\ ret'.err # "receive_channel")
          => /\ RetResolves'
             /\ ret'.h \in connected
             /\ connected' = connected
             /\ Len(peers') = Len(peers)
             /\ peers'[ret'.h.gen].nchan = peers[ret'.h.gen].nchan + 1]_vars

\* Two inbound calls for one id: one peer, two channels, the entry's handle.
C3_Witness ==
    /\ ncalls = 2 /\ Len(peers) = 1 /\ ~peers[1].initiator /\ ~ret.initiator
    /\ RetResolves /\ ret.h = Hd(1) /\ peers[1].nchan = 2
    /\ connected = {Hd(1)}

\* C4: once the transport of a peer has closed, its entry is eventually
\* removed (its handle stops upgrading), for inbound-only sessions as for
\* initiator sessions.
C4_ClosedPeerIsRemoved ==
    \A g \in Gens :
        (g \in Created /\ ~peers[g].open) ~> (g \in Created /\ ~upgrade(Hd(g)))

\* An inbound-only session whose close task has run and removed it.
C4_Witness ==
    \E g \in Created :
        /\ ~peers[g].initiator /\ ~peers[g].open
        /\ Hd(g) \notin closeTasks /\ ~upgrade(Hd(g)) /\ ~is_connected(peers[g].id)

\* C5: a connected() for an id that had a session and has no entry any more
\* succeeds with a fresh entry: the new handle resolves, is none of the
\* handles of the earlier sessions, and those stay unresolvable.
C5_ReconnectIsFresh ==
    [][(IsCall /\ ~contains_key(ret'.id)
          /\ \E g \in Created : peers[g].id = ret'.id)
          => /\ RetResolves'
             /\ ret'.h.gen \notin Created
             /\ \A g \in Created :
                  peers[g].id = ret'.id => (Hd(g) # ret'.h /\ ~upgrade(Hd(g))')]_vars

\* The session closed, its close task ran, and the id reconnected.
C5_Witness ==
    /\ ncalls = 2 /\ Len(peers) = 2 /\ peers[1].id = peers[2].id
    /\ ~peers[1].open /\ Hd(1) \notin closeTasks /\ ~upgrade(Hd(1))
    /\ RetResolves /\ ret.h = Hd(2)

\* C6: a task of an old session (close detection or failed negotiation) that
\* detaches its handle never removes another entry: every entry other than
\* the task's own is still installed after the task has fired.
C6_StaleDetachKeepsNewEntry ==
    [][\A h \in Handles :
          ((h \in closeTasks /\ h \notin closeTasks')
             \/ (\E t \in negTasks : t.h = h /\ t \notin negTasks'))
          => (connected \ {h}) \subseteq connected']_vars

\* A stale task has fired after the reconnect, and the new entry is live.
C6_Witness ==
    /\ staleDetach
    /\ \E g1 \in Created, g2 \in Created :
         /\ g1 < g2 /\ peers[g1].id = peers[g2].id
         /\ upgrade(Hd(g2))
         /\ Hd(g1) \notin closeTasks
         /\ ~neg_running(Hd(g1))

\* C7: a handle that has stopped resolving never resolves again, also after
\* its PeerId reconnects.
C7_DeadHandleStaysDead ==
    [][\A g \in Created : ~upgrade(Hd(g)) => ~upgrade(Hd(g))']_vars

\* The id of a dead handle is connected again and the handle is still dead.
C7_Witness ==
    \E g1 \in Created, g2 \in Created :
        /\ peers[g1].id = peers[g2].id
        /\ ~peers[g1].open /\ ~upgrade(Hd(g1)) /\ upgrade(Hd(g2))

\* C8: every listener that is still subscribed has been handed, in order,
\* every connect made since it subscribed, however late it consumes them
\* (stated for the connects that install a new entry).
C8_EveryConnectDelivered ==
    \A l \in Listeners : rxAlive[l] => delivered(l) = expected[l]

\* C9 as claimed: a successful merging connected() pushes the handle to every
\* listener able to take it.
C9_MergeNotifies ==
    [][(IsCall /\ contains_key(ret'.id) /\ ret'.ok)
          => \A l \in Range(connected_peer_senders) :
               try_send_ok(l, buf) => buf'[l] = <<ret'.h>>]_vars

\* C9 amended: a successful merging connected() returns the existing handle
\* and pushes nothing: the listener set and every listener channel are as
\* before the call.
C9_MergeDoesNotNotify ==
    [][(IsCall /\ contains_key(ret'.id) /\ ret'.ok)
          => /\ ret'.h \in connected
             /\ connected_peer_senders' = connected_peer_senders
             /\ buf' = buf /\ got' = got]_vars

\* A listener subscribed before the entry was created saw the creation only,
\* although a second channel has been merged since.
C9_Witness ==
    /\ RetResolves /\ peers[ret.h.gen].nchan = 2
    /\ \E l \in Range(connected_peer_senders) :
         rxAlive[l] /\ expected[l] = <<ret.h>> /\ delivered(l) = <<ret.h>>

\* C10: a connected() that installs a new entry succeeds and hands the handle
\* to every subscribed listener that has taken its previous item, whatever
\* the other listeners did (dropped, or left their item unconsumed).
C10_ListenersIndependent ==
    [][(IsCall /\ ~contains_key(ret'.id))
          => /\ RetResolves'
             /\ \A l \in Range(connected_peer_senders) :
                  try_send_ok(l, buf)
                     => (buf'[l] = <<ret'.h>>
                          /\ l \in Range(connected_peer_senders'))]_vars

\* The listener registered first never consumed (and was pruned at the
\* second connect), the one registered after it received both connects.
C10_Witness ==
    \E l1 \in Listeners, l2 \in Listeners :
        /\ l1 < l2 /\ rxAlive[l1] /\ rxAlive[l2]
        /\ Len(expected[l1]) = 2 /\ got[l1] = <<>> /\ Len(buf[l1]) = 1
        /\ l1 \notin Range(connected_peer_senders)
        /\ expected[l2] = expected[l1] /\ delivered(l2) = expected[l2]
        /\ l2 \in Range(connected_peer_senders)

\* C11: a listener stream never reports end-of-stream while its subscriber
\* keeps it, whatever connects happen and however slowly it consumes.
C11_StreamNeverEnds ==
    \A l \in Listeners : rxAlive[l] => ~ended[l]

\* C12: a connected() that creates the entry of an id whose descriptor is
\* cached installs the peer with exactly the cached descriptor, and no
\* installed peer has its descriptor unset while the cache holds one for
\* its id.
C12_CachedDescriptorApplied ==
    [][/\ (IsCall /\ ~contains_key(ret'.id) /\ descriptors[ret'.id] # NoDesc)
          => /\ RetResolves'
             /\ ret'.desc = descriptors[ret'.id]
             /\ peers'[ret'.h.gen].desc = descriptors[ret'.id]
       /\ \A e \in connected' :
            descriptors'[e.id] # NoDesc => peers'[e.gen].desc # NoDesc]_vars

\* The first connect of an id found with d2: its peer was returned with d2.
C12_Witness ==
    /\ ncalls = 1 /\ RetResolves
    /\ ret.desc = "d2" /\ descriptors[ret.id] = "d2"
    /\ peers[ret.h.gen].desc = "d2"

\* C13: found(id, desc) leaves desc in the cache and on the installed peer
\* of id, a second found(id, desc) changes nothing, and in every reachable
\* state the descriptor of an installed peer is the cached one of its id
\* whenever one is cached.
C13_FoundOverwritesAndApplies ==
    /\ \A e \in connected :
         descriptors[e.id] # NoDesc => peers[e.gen].desc = descriptors[e.id]
    /\ \A id \in PeerIds, d \in AllDescs :
         LET ds1 == found_descriptors(descriptors, id, d)
             ps1 == found_peers(peers, id, d)
         IN  /\ ds1[id] = d
             /\ get(id) # None => ps1[get(id).gen].desc = d
             /\ found_descriptors(ds1, id, d) = ds1
             /\ found_peers(ps1, id, d) = ps1

\* A peer returned with d1 carries d2 after a later found(id, d2).
C13_Witness ==
    /\ RetResolves /\ ret.desc = "d1"
    /\ descriptors[ret.id] = "d2" /\ peers[ret.h.gen].desc = "d2"

\* Everything of the registry, its peers, its tasks and its listeners.
registryState ==
    <<connected, descriptors, connected_peer_senders, codec_negotiation, peers,
      closeTasks, negTasks, rxAlive, buf, got, ended, nListeners>>

\* C14: a connected() for an id whose entry is installed, and whose channel
\* the peer does not take, returns the receive_channel error and changes
\* nothing: same entries, same peers, same listener channels, same tasks.
C14_RejectedChannelChangesNothing ==
    [][(IsCall /\ contains_key(ret'.id)
          /\ peers'[map_get(ret'.id).gen].nchan = peers[map_get(ret'.id).gen].nchan)
          => /\ ~ret'.ok /\ ret'.err = "receive_channel"
             /\ registryState' = registryState
             /\ map_get(ret'.id) \in connected']_vars

\* An initiator's second channel was rejected while a listener holds the
\* creation's handle: one channel, one entry, the spawned tasks as they were.
C14_Witness ==
    /\ ncalls = 2 /\ ~ret.ok /\ ret.err = "receive_channel" /\ ret.initiator
    /\ Len(peers) = 1 /\ peers[1].nchan = 1 /\ connected = {Hd(1)}
    /\ closeTasks = {Hd(1)}
    /\ \E l \in Listeners : rxAlive[l] /\ buf[l] = <<Hd(1)>>

\* C15: every connected() call returns Ok with a handle or the
\* receive_channel failure of the merge path; "Disconnected connecting
\* transport", "Peer missing" and negotiation failures are never returned.
C15_OnlyAttachErrors ==
    ncalls > 0 =>
        \/ ret.ok /\ ret.h \in Handles /\ ret.err = ""
        \/ ~ret.ok /\ ret.h = None /\ ret.err = "receive_channel"

\* A merge was rejected after the negotiation of an earlier session failed.
C15_Witness ==
    /\ ncalls = MaxCalls /\ ~ret.ok /\ ret.err = "receive_channel"
    /\ \E t \in negTasks : t.pc = "failed" /\ peers[t.h.gen].open

\* A connected() call for the id of the call before it, which created the
\* entry, with nothing of that session having run in between: its peer has
\* its one channel, its transport is open and its tasks are unpolled.
BackToBackCall ==
    /\ IsCall /\ ret.ok /\ ret'.id = ret.id
    /\ upgrade(ret.h) /\ ret.h.gen = Len(peers)
    /\ peers[ret.h.gen].nchan = 1 /\ peers[ret.h.gen].open
    /\ ret.h \in closeTasks
    /\ \A t \in negTasks : t.h = ret.h => t.pc = "spawned"

\* C16 as claimed: of two connected() calls for the same new id made at the
\* same time, both return handles of the one entry, without an error.
C16_BothCallsSucceed ==
    [][BackToBackCall
          => /\ connected' = connected
             /\ ret'.ok /\ ret'.h = ret.h /\ ret.h \in connected']_vars

\* C16 amended: the calls run one after the other; the first creates the
\* only entry and the second takes the merge path: it returns the same
\* handle with its channel attached, or the receive_channel error with the
\* entry of the first left installed. No second peer is created.
C16_SecondCallMergesOrFails ==
    [][BackToBackCall
          => /\ connected' = connected /\ ret.h \in connected'
             /\ Cardinality({e \in connected' : e.id = ret'.id}) = 1
             /\ Len(peers') = Len(peers)
             /\ \/ /\ ret'.ok /\ ret'.h = ret.h
                   /\ peers'[ret.h.gen].nchan = 2
                \/ /\ ~ret'.ok /\ ret'.err = "receive_channel"
                   /\ peers'[ret.h.gen].nchan = 1]_vars

\* Two initiator calls for one new id, the second rejected: one entry, one
\* peer with one channel, its negotiation not yet begun.
C16_Witness ==
    /\ ncalls = 2 /\ Len(peers) = 1 /\ connected = {Hd(1)}
    /\ ret.id = peers[1].id /\ ~ret.ok /\ ret.err = "receive_channel"
    /\ peers[1].nchan = 1 /\ peers[1].open /\ Hd(1) \in closeTasks
    /\ \E t \in negTasks : t.h = Hd(1) /\ t.pc = "spawned"

\* The positions of the remote endpoints of the complementary direction,
\* and the positions of the preferred codecs one of them supports.
candidates(neg, remote) ==
    {i \in 1..Len(remote) : remote[i].dir = complementary(neg.dir)}
usable(neg, remote) ==
    {k \in 1..Len(neg.pref) :
       \E i \in candidates(neg, remote) : remote[i].codec = neg.pref[k]}

\* sel pairs the earliest preferred codec that a remote endpoint of the
\* complementary direction supports with such an endpoint; it is
\* NoSelection exactly when there is none.
is_preferred_pairing(neg, remote, sel) ==
    IF usable(neg, remote) = {}
      THEN sel = NoSelection
      ELSE /\ \E k \in usable(neg, remote) :
                /\ \A j \in usable(neg, remote) : k <= j
                /\ sel.codec = neg.pref[k]
           /\ \E i \in candidates(neg, remote) :
                remote[i].seid = sel.seid /\ remote[i].codec = sel.codec

\* C17: the negotiation selects, among the remote endpoints of the
\* complementary direction, one of the earliest preferred codec that any of
\* them supports, whatever the order of the remote's list; and a task that
\* has called stream_start configures that remote endpoint with the local
\* endpoint of the same codec.
C17_SelectsByLocalPreference ==
    /\ \A remote \in RemoteLists :
         is_preferred_pairing(codec_negotiation, remote,
                              select(codec_negotiation, remote))
    /\ \A t \in negTasks :
         t.pc = "starting" =>
             /\ t.sel # NoSelection
             /\ is_preferred_pairing(t.neg, t.remote, t.sel)
             /\ t.sel.codec = "aac" => t.local = AAC_SEID
             /\ t.sel.codec = "sbc" => t.local = SBC_SEID

\* connect_initiation_uses_negotiation: preference [aac, sbc], the remote
\* lists its sbc endpoint first; remote endpoint 2 (aac) is configured with
\* the local aac endpoint.
C17_Witness ==
    \E t \in negTasks :
        /\ t.pc = "starting" /\ t.neg = TestNegotiation /\ t.remote = TestRemote
        /\ t.sel = [codec |-> "aac", seid |-> 2] /\ t.local = AAC_SEID

\* Where the task of handle h stands ("none" before it is spawned).
pc_of(h) ==
    IF \E t \in negTasks : t.h = h
      THEN (CHOOSE t \in negTasks : t.h = h).pc
      ELSE "none"

\* C18: the negotiation of a new initiator entry goes through its steps in
\* order: spawned with nothing sent, Discover, GetCapabilities, then, with
\* the capabilities collected and a pairing selected among them, the
\* configuration and start of that stream; nothing is configured earlier.
C18_NegotiationStepsInOrder ==
    [][\A u \in negTasks' \ negTasks :
          /\ u.pc = "spawned" <=> pc_of(u.h) = "none"
          /\ u.pc = "discovering" => pc_of(u.h) = "spawned"
          /\ u.pc = "collecting" => pc_of(u.h) = "discovering"
          /\ u.pc = "starting" => pc_of(u.h) = "collecting"
          /\ u.pc = "done" => pc_of(u.h) = "starting"
          /\ u.pc # "starting"
               => u.remote = <<>> /\ u.sel = NoSelection /\ u.local = 0
          /\ u.pc = "starting"
               => /\ u.sel # NoSelection /\ u.local # 0
                  /\ \E i \in 1..Len(u.remote) :
                       u.remote[i].seid = u.sel.seid]_vars

\* A negotiation that ran to its end, with its entry installed.
C18_Witness ==
    \E t \in negTasks :
        /\ t.pc = "done" /\ t.neg = TestNegotiation
        /\ upgrade(t.h) /\ peers[t.h.gen].open

\* C19: when a step of the initiator's chain has failed (the peer gone at
\* the first upgrade, Discover or GetCapabilities failed, no compatible
\* stream, stream start rejected), the entry that started the negotiation
\* is not installed any more, also while its transport is still open.
C19_FailedNegotiationDetaches ==
    \A t \in negTasks : t.pc = "failed" => ~upgrade(t.h)

\* A negotiation failed: its entry is gone while the transport is open and
\* the close task has not run.
C19_Witness ==
    \E t \in negTasks :
        /\ t.pc = "failed" /\ peers[t.h.gen].initiator
        /\ peers[t.h.gen].open /\ t.h \in closeTasks
        /\ ~is_connected(t.h.id)

\* C20: a connected(id, channel, true) that creates the entry returns its
\* handle with no negotiation step taken, and no later step (of the
\* negotiation or of any other task) changes what the call returned.
C20_InitiatorReturnsAtOnce ==
    [][/\ (IsCall /\ ret'.initiator /\ ~contains_key(ret'.id))
          => (RetResolves' /\ pc_of(ret.h)' = "spawned")
       /\ ~IsCall => ret' = ret]_vars

\* The call returned Ok; its negotiation failed afterwards and removed the
\* entry; the caller's result is still Ok.
C20_Witness ==
    /\ ret.ok /\ ret.initiator /\ ret.err = ""
    /\ peers[ret.h.gen].nchan = 1
    /\ pc_of(ret.h) = "failed" /\ ~upgrade(ret.h)

\* C21: set_preferred_direction changes only the registry's negotiation:
\* a task takes the negotiation configured when its connected() call
\* spawned it, keeps it through every later step and direction change, and
\* its stream start is the selection of that negotiation; the direction
\* changes only by set_preferred_direction, and preferred_direction() is
\* then the value set.
C21_InFlightKeepsDirection ==
    [][/\ \A u \in negTasks' :
            /\ (\A t \in negTasks : t.h # u.h) => u.neg = codec_negotiation
            /\ \A t \in negTasks : t.h = u.h => u.neg = t.neg
            /\ u.pc = "starting" => u.sel = select(u.neg, u.remote)
       /\ \A direction \in Dirs :
            set_preferred_direction(direction)
               => preferred_direction' = direction
       /\ preferred_direction' # preferred_direction
            => \E direction \in Dirs : set_preferred_direction(direction)]_vars

\* The direction changed after connected(): the task started the stream its
\* own negotiation selects, where the registry's present direction selects
\* nothing.
C21_Witness ==
    \E t \in negTasks :
        /\ t.pc = "starting"
        /\ t.neg.dir # preferred_direction
        /\ t.sel # NoSelection
        /\ select(codec_negotiation, t.remote) = NoSelection

\* The endpoints in use as the Peer with serial number g sees them.
in_use(g) == streams[peers[g].streams]

\* C22: every Peer has a Streams of its own, made as the template was: no
\* two peers name the same Streams and none names the template; the
\* template never changes; what a peer sees in use changes only when its own
\* stream start succeeds.
C22_StreamCopiesIndependent ==
    [][/\ \A g \in Created :
            /\ peers[g].streams # TemplateCell
            /\ \A g2 \in Created : g2 # g => peers[g2].streams # peers[g].streams
            /\ in_use(g)' # in_use(g)
                 => pc_of(Hd(g)) = "starting" /\ pc_of(Hd(g))' = "done"
       /\ \A g \in Created' \ Created : in_use(g)' = streams[TemplateCell]
       /\ streams'[TemplateCell] = streams[TemplateCell]]_vars

\* Two sessions at once: the endpoint is in use for the peer whose stream
\* started, and free for the other peer and in the template.
C22_Witness ==
    \E g1 \in Created, g2 \in Created :
        /\ upgrade(Hd(g1)) /\ upgrade(Hd(g2))
        /\ pc_of(Hd(g1)) = "done" /\ pc_of(Hd(g2)) = "starting"
        /\ in_use(g1) = {AAC_SEID}
        /\ in_use(g2) = {}
        /\ streams[TemplateCell] = {}

\* C23: a detached handle does not upgrade any more, from the detaching
\* step on; a task whose entry was detached while its capability discovery
\* was pending never reaches stream_start, and where the collected endpoints
\* have a compatible pairing its error is the "Disconnected" of the second
\* upgrade.
C23_DetachedNeverStarts ==
    [][/\ \A h \in Handles : ~upgrade(h) /\ h.gen <= Len(peers) => ~upgrade(h)'
       /\ \A h \in Handles : ExplicitDetach(h) => ~upgrade(h)'
       /\ \A t \in negTasks :
            (t.pc \in {"discovering", "collecting"} /\ ~upgrade(t.h))
               => /\ pc_of(t.h)' \in {"discovering", "collecting", "failed"}
                  /\ \A res \in LifecycleResults :
                       (res.ok /\ select(t.neg, res.streams) # NoSelection)
                          => collect_error(t.neg, res, second_upgrade(t.h))
                               = "Disconnected"]_vars

\* The entry was detached while GetCapabilities is pending and the transport
\* is open: the endpoints can still arrive.
C23_Witness ==
    \E t \in negTasks :
        /\ t.pc = "collecting" /\ ~upgrade(t.h)
        /\ peers[t.h.gen].open /\ t.h \in closeTasks
        /\ select(t.neg, TestRemote) # NoSelection

\* C24: when no remote endpoint of the complementary direction supports a
\* preferred codec, start_streaming returns "No compatible stream found"
\* whether or not the peer is still installed; so a task that has called
\* stream_start collected endpoints with a compatible pairing, and no local
\* endpoint is in use for a peer whose task did not complete the start.
C24_NoPairingNoStreamStart ==
    /\ \A remote \in RemoteLists, alive \in BOOLEAN :
         usable(codec_negotiation, remote) = {}
            => collect_error(codec_negotiation, Collected(remote), alive)
                 = "No compatible stream found"
    /\ \A t \in negTasks : t.pc = "starting" => usable(t.neg, t.remote) # {}
    /\ \A g \in Created : pc_of(Hd(g)) # "done" => in_use(g) = {}

\* A registry that prefers no codec at all: the task of its peer has failed
\* with the transport open and nothing configured.
C24_Witness ==
    \E t \in negTasks :
        /\ t.pc = "failed" /\ t.neg.pref = <<>>
        /\ \A remote \in RemoteLists : usable(t.neg, remote) = {}
        /\ peers[t.h.gen].open /\ ~upgrade(t.h)
        /\ in_use(t.h.gen) = {}

\* C25: once the transport of an initiated peer has closed, whether its
\* start_streaming task was still to be polled, was waiting at one of its
\* awaits or had returned, the task comes to its end (no request stays
\* pending) and the entry of the peer is removed.
C25_ClosedTransportEndsTask ==
    \A h \in Handles :
        (pc_of(h) # "none" /\ ~peers[h.gen].open)
           ~> (pc_of(h) \in {"done", "failed"} /\ ~upgrade(h))

\* The transport closed while stream_start was pending: the task has failed,
\* the close task has run as well, and the entry is gone.
C25_Witness ==
    \E t \in negTasks :
        /\ t.pc = "failed" /\ ~peers[t.h.gen].open
        /\ t.h \notin closeTasks /\ ~upgrade(t.h)

\* C26: found, connected, connected_stream and set_preferred_direction
\* remove no entry; every entry that leaves the map is the entry of a close
\* task that ran after its transport closed, or of a start_streaming task
\* that failed in that step.
C26_OnlyTasksRemoveEntries ==
    [][/\ (\/ IsCall
           \/ connected_stream
           \/ \E id \in PeerIds, d \in AllDescs : found(id, d)
           \/ \E direction \in Dirs : set_preferred_direction(direction))
          => connected \subseteq connected'
       /\ \A h \in connected \ connected' :
            \/ /\ h \in closeTasks \ closeTasks'
               /\ ~peers[h.gen].open
            \/ neg_running(h) /\ pc_of(h)' = "failed" /\ closeTasks' = closeTasks]_vars

\* After calls of all four kinds, a second channel merged among them, the
\* entry is still installed when its transport has closed; the close task
\* removes it then.
C26_Witness ==
    /\ nListeners > 0
    /\ preferred_direction # TestNegotiation.dir
    /\ \E g \in Created :
         /\ descriptors[peers[g].id] # NoDesc
         /\ peers[g].nchan = 2 /\ ~peers[g].open
         /\ pc_of(Hd(g)) = "done"
         /\ ~upgrade(Hd(g)) /\ Hd(g) \notin closeTasks

\* C27: dropping a PeerConnections leaves connected_peer_senders as it
\* is; a connected() call that creates an entry (the fan-out) leaves in
\* connected_peer_senders no sender whose receiver had been dropped before
\* the call.
C27_DroppedListenersPrunedAtFanOut ==
    [][/\ \A l \in Listeners :
            drop_stream(l) => connected_peer_senders' = connected_peer_senders
       /\ (IsCall /\ ~contains_key(ret'.id) /\ ret'.ok)
            => \A l \in Range(connected_peer_senders') : rxAlive[l]]_vars

\* A listener dropped before any connect is gone from the Vec after the
\* fan-out that served another listener.
C27_Witness ==
    \E l1 \in Listeners, l2 \in Listeners :
        /\ l1 <= nListeners /\ ~rxAlive[l1] /\ expected[l1] = <<>>
        /\ l1 \notin Range(connected_peer_senders)
        /\ rxAlive[l2] /\ buf[l2] # <<>>
        /\ l2 \in Range(connected_peer_senders)

\* C28: a connected() call does the same whether iattach succeeds or fails
\* (every step it can take with one outcome it can take with the other), and
\* for an id with no entry it installs the entry, returns its handle and
\* spawns the close task and, for an initiator, the start_streaming task.
C28_CreationIgnoresInspect ==
    [][/\ \A id \in PeerIds, initiator \in BOOLEAN, accept \in BOOLEAN :
            Connected(id, initiator, accept, TRUE)
               <=> Connected(id, initiator, accept, FALSE)
       /\ (IsCall /\ ~contains_key(ret'.id))
            => /\ RetResolves'
               /\ ret'.h = [id |-> ret'.id, gen |-> Len(peers) + 1]
               /\ closeTasks' = closeTasks \cup {ret'.h}
               /\ negTasks' \ negTasks
                    = IF ret'.initiator THEN {new_task(ret'.h, "spawned")}
                                        ELSE {}]_vars

\* Both ids were connected by creating calls, one as initiator: each entry
\* is installed with its close task, and only the initiator has a task.
C28_Witness ==
    /\ ncalls = 2
    /\ \E g1 \in Created, g2 \in Created :
         /\ peers[g1].initiator /\ ~peers[g2].initiator
         /\ upgrade(Hd(g1)) /\ upgrade(Hd(g2))
         /\ {Hd(g1), Hd(g2)} \subseteq closeTasks
         /\ pc_of(Hd(g1)) = "spawned" /\ pc_of(Hd(g2)) = "none"

\* Everything the registry and its tasks hold about one PeerId: its entry
\* (so which of its handles upgrade), its cached descriptor, its sessions
\* with their peers and Streams, and its tasks.
about(id) ==
    [entries |-> {e \in connected : e.id = id},
     desc |-> descriptors[id],
     sessions |-> {<<g, peers[g], in_use(g)>> :
                     g \in {x \in Created : peers[x].id = id}},
     close |-> {h \in closeTasks : h.id = id},
     tasks |-> {t \in negTasks : t.h.id = id}]

\* C29: a step changes what is held about an id only if it is a connected()
\* or found() call for that id, the close of one of its transports, or a
\* step of one of its own tasks; and a connected() call whose channel is
\* accepted returns the resolving handle of its id also while the
\* negotiation of another id is waiting for the remote.
C29_OtherPeersUntouched ==
    [][/\ \A b \in PeerIds :
            about(b)' # about(b)
               => \/ IsCall /\ ret'.id = b
                  \/ \E d \in Descs : found(b, d)
                  \/ \E g \in Created : peers[g].id = b /\ TransportClose(g)
                  \/ \E h \in closeTasks : h.id = b /\ CloseTask(h)
                  \/ \E t \in negTasks \ negTasks' : t.h.id = b
       /\ (/\ IsCall /\ ret'.err # "receive_channel"
           /\ \E t \in negTasks :
                t.h.id # ret'.id /\ t.pc \in {"discovering", "collecting", "starting"})
            => RetResolves']_vars

\* Id 1 was found and connected, and its negotiation failed, while id 2 is
\* connected with no descriptor and its own negotiation waiting.
C29_Witness ==
    \E g1 \in Created, g2 \in Created :
        /\ peers[g1].id = 1 /\ peers[g2].id = 2
        /\ descriptors[1] # NoDesc /\ descriptors[2] = NoDesc
        /\ peers[g2].desc = NoDesc
        /\ pc_of(Hd(g1)) = "failed" /\ ~upgrade(Hd(g1))
        /\ pc_of(Hd(g2)) = "collecting" /\ upgrade(Hd(g2))
        /\ g2 < g1

\* C30: a connected() call for an id that has an entry spawns no task,
\* whatever its initiator flag; so an entry has at most one start_streaming
\* task, spawned by the call that created it when that call was an
\* initiator's, and at most one close task.
C30_MergeSpawnsNothing ==
    [][/\ (IsCall /\ contains_key(ret'.id))
            => negTasks' = negTasks /\ closeTasks' = closeTasks
       /\ \A t \in negTasks', u \in negTasks' : t.h = u.h => t = u
       /\ \A t \in negTasks' : peers'[t.h.gen].initiator
       /\ \A h \in closeTasks' \ closeTasks :
            IsCall /\ ~contains_key(h.id) /\ h = ret'.h]_vars

\* An initiator's channel was merged into the entry an inbound connect had
\* created: the entry has no negotiation task and its one close task.
C30_Witness ==
    /\ ncalls = 2 /\ ret.ok /\ ret.initiator
    /\ ~peers[ret.h.gen].initiator /\ peers[ret.h.gen].nchan = 2
    /\ pc_of(ret.h) = "none" /\ negTasks = {}
    /\ closeTasks = {ret.h}

\* C31: a peer whose entry was created by a connected(.., false) call never
\* has a start_streaming task and none of its local endpoints comes in use;
\* while its entry is installed its close task is waiting, and its entry
\* leaves the map only in the step of that close task, after its transport
\* has closed.
C31_InboundPeerNeverNegotiates ==
    [][\A g \in Created :
          ~peers[g].initiator
             => /\ pc_of(Hd(g)) = "none" /\ pc_of(Hd(g))' = "none"
                /\ in_use(g) = {} /\ in_use(g)' = {}
                /\ upgrade(Hd(g)) => Hd(g) \in closeTasks
                /\ (upgrade(Hd(g)) /\ ~upgrade(Hd(g))')
                     => /\ ~peers[g].open
                        /\ closeTasks' = closeTasks \ {Hd(g)}]_vars

\* An inbound session that later got an initiator's channel merged in: it
\* ended by its close task with no negotiation ever started for it.
C31_Witness ==
    \E g \in Created :
        /\ ~peers[g].initiator /\ peers[g].nchan = 2 /\ ret.initiator
        /\ ret.h = Hd(g)
        /\ ~peers[g].open /\ ~upgrade(Hd(g)) /\ Hd(g) \notin closeTasks
        /\ pc_of(Hd(g)) = "none" /\ in_use(g) = {}

\* C32: the step in which stream_start succeeds leaves the entry
\* installed; the entry of a peer whose negotiation succeeded is installed
\* as long as its transport is open, and it leaves the map only in the step
\* of its close task.
C32_SuccessKeepsEntry ==
    [][\A h \in Handles :
          pc_of(h)' = "done"
             => /\ pc_of(h) = "starting" => upgrade(h) /\ upgrade(h)'
                /\ peers'[h.gen].open => upgrade(h)'
                /\ (upgrade(h) /\ ~upgrade(h)')
                     => /\ ~peers[h.gen].open
                        /\ closeTasks' = closeTasks \ {h}]_vars

\* The stream of an initiated session has started and is in use; the entry
\* is installed, its transport open and its close task waiting.
C32_Witness ==
    \E g \in Created :
        /\ pc_of(Hd(g)) = "done" /\ in_use(g) = {AAC_SEID}
        /\ peers[g].open /\ upgrade(Hd(g)) /\ is_connected(peers[g].id)
        /\ Hd(g) \in closeTasks
        /\ ret.h = Hd(g) /\ ret.ok

\* C33: the cached descriptor of an id changes only in a found() call for
\* that id and is never unset, whatever closes and detaches happen; so a
\* connected() call that creates a later session of an id finds the
\* descriptor cached during or before an earlier session and creates the
\* new peer with it.
C33_DescriptorOutlivesSession ==
    [][/\ \A id \in PeerIds :
            /\ descriptors'[id] # descriptors[id]
                 => \E d \in AllDescs : found(id, d)
            /\ descriptors[id] # NoDesc => descriptors'[id] # NoDesc
       /\ (/\ IsCall /\ ~contains_key(ret'.id)
           /\ \E g \in Created :
                peers[g].id = ret'.id /\ peers[g].desc = descriptors[ret'.id]
           /\ descriptors[ret'.id] # NoDesc)
            => /\ RetResolves' /\ ret'.h.gen \notin Created
               /\ peers'[ret'.h.gen].desc = descriptors[ret'.id]]_vars

\* The session that carried d2 is closed and detached; the next session of
\* the id was created with d2.
C33_Witness ==
    \E g1 \in Created, g2 \in Created :
        /\ g1 < g2 /\ peers[g1].id = peers[g2].id
        /\ peers[g1].desc = "d2" /\ ~peers[g1].open /\ ~upgrade(Hd(g1))
        /\ Hd(g1) \notin closeTasks
        /\ peers[g2].desc = "d2" /\ upgrade(Hd(g2)) /\ peers[g2].open
        /\ ret.h = Hd(g2) /\ ret.desc = "d2" /\ peers[g2].nchan = 1

C35_FoundWithoutEntryOnlyCaches ==
    [][\A id \in PeerIds :
          (/\ ~is_connected(id)
           /\ \/ \E d \in AllDescs : found(id, d)
              \/ descriptors'[id] # descriptors[id])
             => /\ ~is_connected(id)'
                /\ <<connected, peers, closeTasks, negTasks, streams,
                     connected_peer_senders, buf, got, rxAlive, ended,
                     codec_negotiation, ncalls, ret>>'
                   = <<connected, peers, closeTasks, negTasks, streams,
                       connected_peer_senders, buf, got, rxAlive, ended,
                       codec_negotiation, ncalls, ret>>
                /\ \A other \in PeerIds \ {id} :
                     descriptors'[other] = descriptors[other]]_vars

\* A descriptor is cached for an id that never connected, with a listener
\* subscribed: no peer exists, nothing was sent, nothing runs.
C35_Witness ==
    /\ \E id \in PeerIds : descriptors[id] # NoDesc /\ ~is_connected(id)
    /\ peers = <<>> /\ connected = {} /\ ncalls = 0
    /\ nListeners > 0 /\ \A l \in Listeners : buf[l] = <<>>
    /\ closeTasks = {} /\ negTasks = {}

\* C36: the stream that connected_stream() returns starts with nothing to
\* deliver, whatever peers are connected then, and a handle enters a
\* listener channel only as the handle returned by the connected() call
\* being made, to a listener subscribed before that call.
C36_OnlyLaterConnectsDelivered ==
    [][/\ nListeners' # nListeners
            => /\ nListeners' = nListeners + 1
               /\ got'[nListeners'] = <<>> /\ buf'[nListeners'] = <<>>
               /\ rxAlive'[nListeners']
       /\ \A l \in Listeners :
            Len(delivered(l)') > Len(delivered(l))
               => /\ IsCall /\ ret'.ok /\ ~contains_key(ret'.id)
                  /\ l <= nListeners /\ rxAlive[l]
                  /\ delivered(l)' = Append(delivered(l), ret'.h)]_vars

\* A listener subscribed while a peer was connected: it has the handle of the
\* peer connected afterwards and not that of the earlier one, which is
\* still connected.
C36_Witness ==
    \E l \in Listeners, h1 \in connected, h2 \in connected :
        /\ h1.gen < h2.gen
        /\ rxAlive[l] /\ delivered(l) = <<h2>> /\ expected[l] = <<h2>>
        /\ got[l] = <<h2>>
        /\ \E l0 \in Listeners : l0 < l /\ h1 \in Range(delivered(l0))

\* The listeners of connected_peer_senders that try_send would accept.
accepting == {l \in Range(connected_peer_senders) : try_send_ok(l, buf)}

\* C37: the fan-out of a connected() call that creates an entry returns
\* with exactly the accepting listeners kept, each once, each handed the
\* handle once; every other listener of the Vec is removed with its channel
\* as it was.
C37_FanOutExaminesEachOnce ==
    [][(IsCall /\ ~contains_key(ret'.id))
          => /\ Range(connected_peer_senders') = accepting
             /\ Len(connected_peer_senders') = Cardinality(accepting)
             /\ \A l \in accepting : buf'[l] = Append(buf[l], ret'.h)
             /\ \A l \in Listeners \ accepting : buf'[l] = buf[l]]_vars

\* One pass removed both listeners: the first, dropped after the first
\* connect, and the one swapped into its slot, still holding the first
\* handle.
C37_Witness ==
    \E l1 \in Listeners, l2 \in Listeners :
        /\ l1 < l2 /\ nListeners = 2 /\ ncalls = 2
        /\ ~rxAlive[l1] /\ Len(expected[l1]) = 1
        /\ rxAlive[l2] /\ Len(expected[l2]) = 2
        /\ buf[l2] = <<expected[l2][1]>> /\ got[l2] = <<>>
        /\ connected_peer_senders = <<>>
====
